---- MODULE Spec2Model ----
(***************************************************************************)
(* A model of weekly_playlist_creator.py: the date parsing and recency     *)
(* filter, the per-artist track selection, and the request sequence of     *)
(* create_weekly_playlist against the MCP server subprocess.               *)
(*                                                                         *)
(* Python strings that the code inspects character by character (date      *)
(* tokens, artist names, the createPlaylist answer) are sequences of       *)
(* one-character strings.  Opaque strings (track ids, titles) are TLA+     *)
(* strings.                                                                *)
(***************************************************************************)
EXTENDS Integers, Sequences, FiniteSets, TLC

VARIABLES
    \* ---- create_weekly_playlist (one run) ----
    pc,                \* position of the run
    process,           \* the Popen object: "unbound", "running", "terminated", "killed"
    server_found,      \* server_path.exists(): "unchecked", "yes", "no"
    request_id,        \* the request counter
    outstanding,       \* ids of requests written whose response line was not read yet
    sent,              \* log of the requests written to the server's stdin
    init_response,     \* kind of the answer to initialize
    create_response,   \* kind of the answer to createPlaylist
    add_response,      \* kind of the answer to addTracksToPlaylist
    playlist_id,       \* result of extract_playlist_id
    artist_idx,        \* index into FAVORITE_ARTISTS of the artist being searched
    query_idx,         \* number of queries of that artist already answered
    cutoff_date,       \* local of search_artist_tracks
    found_tracks,      \* local of search_artist_tracks
    all_tracks,        \* selected tracks of all artists so far
    track_ids_to_add,  \* their ids
    retval,            \* value of the return statement that was executed
    raised,            \* an exception reached the except clause
    result,            \* outcome of the call once the finally clause has run
    \* ---- is_recent_release applied to one input ----
    d_pc, d_token, d_now, d_result,
    \* ---- search_artist_tracks applied to one artist ----
    s_pc, s_lines, s_artist, s_cutoff, s_query, s_fault, s_parsed, s_found, s_out, s_again

run_vars == <<pc, process, server_found, request_id, outstanding, sent, init_response,
              create_response, add_response, playlist_id, artist_idx, query_idx,
              cutoff_date, found_tracks, all_tracks, track_ids_to_add, retval,
              raised, result>>
date_vars == <<d_pc, d_token, d_now, d_result>>
sel_vars == <<s_pc, s_lines, s_artist, s_cutoff, s_query, s_fault, s_parsed, s_found, s_out, s_again>>
vars == <<run_vars, date_vars, sel_vars>>

----------------------------------------------------------------------------
(* Bounds of the model *)

\* number of artists of FAVORITE_ARTISTS a run goes through
NArtists == 2
\* most lines in one search answer of a run
MaxLines == 1
\* most lines in the three search answers of one artist together (selection)
MaxTotalLines == 4
\* instants per day the clock can show (0 is midnight)
TicksPerDay == 2
\* calendar years the date tokens range over, starting with 2024
NYears == 2

(* Program constants *)

\* found_tracks[:3]
MaxPerArtist == 3
\* timedelta(days=7)
CutoffDays == 7
\* len(search_queries)
NQueries == 3

----------------------------------------------------------------------------
(* Python str operations on sequences of characters *)

UPPER == <<"A","B","C","D","E","F","G","H","I","J","K","L","M",
           "N","O","P","Q","R","S","T","U","V","W","X","Y","Z">>
LOWER == <<"a","b","c","d","e","f","g","h","i","j","k","l","m",
           "n","o","p","q","r","s","t","u","v","w","x","y","z">>
DIGITS == <<"0","1","2","3","4","5","6","7","8","9">>

Range(s) == {s[i] : i \in DOMAIN s}
DigitSet == Range(DIGITS)
UpperSet == Range(UPPER)
AlnumSet == Range(DIGITS) \cup Range(UPPER) \cup Range(LOWER)
ValueOfDigit == [c \in DigitSet |-> (CHOOSE i \in 1..10 : DIGITS[i] = c) - 1]
LowerOfUpper == [c \in UpperSet |-> LOWER[CHOOSE i \in 1..26 : UPPER[i] = c]]

IsDigit(c) == c \in DigitSet
IsAlnum(c) == c \in AlnumSet
IsSpace(c) == c = " "

DigitVal(c) == ValueOfDigit[c]

\* str.lower() of one character
LowerChar(c) == IF c \in UpperSet THEN LowerOfUpper[c] ELSE c

\* str.lower()
Lower(s) == [i \in 1..Len(s) |-> LowerChar(s[i])]

\* str.strip()
Strip(s) ==
    LET keep == {i \in 1..Len(s) : ~IsSpace(s[i])}
    IN IF keep = {} THEN <<>>
       ELSE LET lo == CHOOSE i \in keep : \A j \in keep : i <= j
                hi == CHOOSE i \in keep : \A j \in keep : j <= i
            IN SubSeq(s, lo, hi)

\* sub in s
Contains(sub, s) ==
    \E i \in 0..(Len(s) - Len(sub)) : \A k \in 1..Len(sub) : s[i + k] = sub[k]

----------------------------------------------------------------------------
(* datetime *)

None == [kind |-> "None"]
ValueError == [kind |-> "ValueError"]

Datetime(y, m, d, t) == [kind |-> "datetime", year |-> y, month |-> m, day |-> d, tick |-> t]

IsLeap(y) == (y % 4 = 0) /\ ((y % 100 # 0) \/ (y % 400 = 0))

DaysInMonth(y, m) ==
    IF m = 2 THEN (IF IsLeap(y) THEN 29 ELSE 28)
    ELSE IF m \in {4, 6, 9, 11} THEN 30 ELSE 31

DaysBeforeYear(y) ==
    LET p == y - 1 IN p * 365 + (p \div 4) - (p \div 100) + (p \div 400)

RECURSIVE DaysBeforeMonth(_, _)
DaysBeforeMonth(y, m) ==
    IF m = 1 THEN 0 ELSE DaysBeforeMonth(y, m - 1) + DaysInMonth(y, m - 1)

\* date.toordinal()
ToOrdinal(y, m, d) == DaysBeforeYear(y) + DaysBeforeMonth(y, m) + d

\* date.fromordinal(), as a datetime at the given time of day
FromOrdinal(n, t) ==
    LET y == CHOOSE yy \in (n \div 366)..(n \div 365 + 1) :
                 DaysBeforeYear(yy) < n /\ n <= DaysBeforeYear(yy + 1)
        r == n - DaysBeforeYear(y)
        m == CHOOSE mm \in 1..12 :
                 DaysBeforeMonth(y, mm) < r /\ r <= DaysBeforeMonth(y, mm) + DaysInMonth(y, mm)
    IN Datetime(y, m, r - DaysBeforeMonth(y, m), t)

\* datetime - timedelta(days=n)
MinusDays(dt, n) == FromOrdinal(ToOrdinal(dt.year, dt.month, dt.day) - n, dt.tick)

\* a >= b on datetimes: field by field, most significant first
DatetimeGE(a, b) ==
    IF a.year # b.year THEN a.year > b.year
    ELSE IF a.month # b.month THEN a.month > b.month
    ELSE IF a.day # b.day THEN a.day > b.day
    ELSE a.tick >= b.tick

\* get_cutoff_date(), with datetime.now() = now
get_cutoff_date(now) == MinusDays(now, CutoffDays)

----------------------------------------------------------------------------
(* datetime.strptime(s, '%Y-%m-%d') *)

\* %m: 1[0-2]|0[1-9]|[1-9]
MonthField(f) ==
    \/ Len(f) = 2 /\ f[1] = "1" /\ f[2] \in {"0", "1", "2"}
    \/ Len(f) = 2 /\ f[1] = "0" /\ IsDigit(f[2]) /\ f[2] # "0"
    \/ Len(f) = 1 /\ IsDigit(f[1]) /\ f[1] # "0"

\* %d: 3[0-1]|[1-2]\d|0[1-9]|[1-9]| [1-9]
DayField(f) ==
    \/ Len(f) = 2 /\ f[1] = "3" /\ f[2] \in {"0", "1"}
    \/ Len(f) = 2 /\ f[1] \in {"1", "2"} /\ IsDigit(f[2])
    \/ Len(f) = 2 /\ f[1] \in {"0", " "} /\ IsDigit(f[2]) /\ f[2] # "0"
    \/ Len(f) = 1 /\ IsDigit(f[1]) /\ f[1] # "0"

\* int() of a matched field
RECURSIVE FieldInt(_)
FieldInt(f) ==
    IF f = <<>> THEN 0
    ELSE IF f[Len(f)] = " " THEN 0
    ELSE FieldInt(SubSeq(f, 1, Len(f) - 1)) * 10 + DigitVal(f[Len(f)])

\* the ways s splits into <year>-<month>-<day>; ml is the length of the month field
StrptimeSplits(s) ==
    {ml \in {1, 2} :
        /\ Len(s) >= 4 + 1 + ml + 1 + 1
        /\ \A i \in 1..4 : IsDigit(s[i])
        /\ s[5] = "-"
        /\ MonthField(SubSeq(s, 6, 5 + ml))
        /\ s[6 + ml] = "-"
        /\ DayField(SubSeq(s, 7 + ml, Len(s)))}

Strptime(s) ==
    IF StrptimeSplits(s) = {} THEN ValueError      \* does not match format
    ELSE LET ml == CHOOSE l \in StrptimeSplits(s) : TRUE
             y == FieldInt(SubSeq(s, 1, 4))
             m == FieldInt(SubSeq(s, 6, 5 + ml))
             d == FieldInt(SubSeq(s, 7 + ml, Len(s)))
         IN IF y < 1 THEN ValueError               \* year 0 is out of range
            ELSE IF d > DaysInMonth(y, m) THEN ValueError  \* day is out of range for month
            ELSE Datetime(y, m, d, 0)

Unknown == <<"U","n","k","n","o","w","n">>
Suffix01 == <<"-","0","1">>

\* the body of the try block of parse_spotify_date
ParseByLength(date_str) ==
    IF Len(date_str) = 10 THEN Strptime(date_str)
    ELSE IF Len(date_str) = 7 THEN Strptime(date_str \o Suffix01)
    ELSE IF Len(date_str) = 4 THEN Strptime(date_str \o Suffix01 \o Suffix01)
    ELSE None

\* parse_spotify_date without its except clause: the ValueError escapes
ParseSpotifyDateUncaught(raw) ==
    LET date_str == Strip(raw)
    IN IF date_str = Unknown THEN None ELSE ParseByLength(date_str)

\* parse_spotify_date: a datetime, or None
parse_spotify_date(raw) ==
    LET date_str == Strip(raw)
    IN IF date_str = Unknown THEN None
       ELSE LET r == ParseByLength(date_str)
            IN IF r = ValueError THEN None ELSE r

\* is_recent_release lets an exception of parse_spotify_date through
IsRecentReleaseRaises(release_date_str) ==
    parse_spotify_date(release_date_str).kind = "ValueError"

\* is_recent_release with > for >=
IsRecentReleaseStrict(release_date_str, cutoff) ==
    LET release_date == parse_spotify_date(release_date_str)
    IN IF release_date.kind # "datetime" THEN FALSE
       ELSE DatetimeGE(release_date, cutoff) /\ release_date # cutoff

\* is_recent_release
is_recent_release(release_date_str, cutoff) ==
    LET release_date == parse_spotify_date(release_date_str)
    IN IF release_date.kind # "datetime" THEN FALSE
       ELSE DatetimeGE(release_date, cutoff)

----------------------------------------------------------------------------
(* Inputs of the date check *)

Digit(n) == DIGITS[n + 1]
Fmt2(n) == <<Digit(n \div 10), Digit(n % 10)>>
Fmt4(n) == <<Digit(n \div 1000), Digit((n \div 100) % 10), Digit((n \div 10) % 10), Digit(n % 10)>>
Dash == <<"-">>

Years == 2024..(2024 + NYears - 1)
TokenMonths == {0, 1, 2, 3, 12, 13}
TokenDays == {0, 1, 2, 27, 28, 29, 30, 31, 32}

YearToken(y) == Fmt4(y)
MonthToken(y, m) == Fmt4(y) \o Dash \o Fmt2(m)
DayToken(y, m, d) == Fmt4(y) \o Dash \o Fmt2(m) \o Dash \o Fmt2(d)
\* a day of the month padded with a space, which %d accepts
SpaceDayToken(y, m, d) == Fmt4(y) \o Dash \o Fmt2(m) \o Dash \o <<" ", Digit(d)>>

\* tokens of no accepted shape
OddTokens ==
    { <<>>,
      <<"0","0","0","0">>,
      <<"2","0","2","5","-","1">>,
      <<"2","0","2","5","-","1","-">>,
      <<"2","0","2","5","0","1","0","5">>,
      <<"2","0","2","5","-","1","-","5">>,
      <<"2","0","2","5","-","0","1","-","5">>,
      <<"2","0","2","5","/","0","1","/","0","5">>,
      <<"2","0","2","5","-","0","1","-","0","x">>,
      <<"u","n","k","n","o","w","n">>,
      <<"2","0","2","x">> }

DateTokens ==
    {Unknown} \cup OddTokens
    \cup {YearToken(y) : y \in Years}
    \cup {MonthToken(y, m) : y \in Years, m \in TokenMonths}
    \cup {DayToken(y, m, d) : y \in Years, m \in TokenMonths, d \in TokenDays}
    \cup {SpaceDayToken(y, 1, d) : y \in Years, d \in {1, 5}}

\* the days on which the date check runs
NowDays == { <<2025, 1, 8>>, <<2025, 1, 3>>, <<2024, 3, 7>>, <<2025, 3, 7>>, <<2025, 3, 8>>,
             <<2025, 2, 4>>, <<2025, 1, 5>> }
DateNows == {Datetime(x[1], x[2], x[3], t) : x \in NowDays, t \in 0..(TicksPerDay - 1)}

DateInit ==
    /\ d_pc = "input"
    /\ d_token \in DateTokens
    /\ d_now \in DateNows
    /\ d_result = FALSE

\* is_recent_release(d_token, get_cutoff_date())
DateCheck ==
    /\ d_pc = "input"
    /\ d_pc' = "done"
    /\ d_result' = is_recent_release(d_token, get_cutoff_date(d_now))
    /\ UNCHANGED <<d_token, d_now>>

----------------------------------------------------------------------------
(* The artists, and the lines a search answer is made of *)

LilTecca == <<"L","i","l"," ","T","e","c","c","a">>
PlayboiCarti == <<"P","l","a","y","b","o","i"," ","C","a","r","t","i">>
TravisScott == <<"T","r","a","v","i","s"," ","S","c","o","t","t">>
DonToliver == <<"D","o","n"," ","T","o","l","i","v","e","r">>

\* the first NArtists entries of FAVORITE_ARTISTS
FAVORITE_ARTISTS == SubSeq(<<LilTecca, PlayboiCarti, TravisScott, DonToliver>>, 1, NArtists)

\* a line of the answer text that the pattern of extract_track_info_with_dates matches,
\* as its four groups; the artist group ends where the "(" of the duration starts
Line(title, artist, release_date, id) ==
    [match |-> TRUE, title |-> title, artist |-> artist,
     release_date |-> release_date, id |-> id]

\* a line the pattern does not match
JunkLine == [match |-> FALSE, title |-> "", artist |-> <<>>, release_date |-> <<>>, id |-> ""]

LilTeccaSp == LilTecca \o <<" ">>
LilTeccaLowerSp == Lower(LilTecca) \o <<" ">>
\* "LIL TECCA, Playboi Carti "
BothArtistsSp ==
    <<"L","I","L"," ","T","E","C","C","A",",", " ">> \o PlayboiCarti \o <<" ">>

\* the lines of the answers in the selection of one artist
Lines ==
    { Line("t1", LilTeccaSp, DayToken(2025, 1, 5), "a"),
      Line("t2", BothArtistsSp, DayToken(2025, 1, 7), "b"),
      Line("t3", LilTeccaLowerSp, MonthToken(2025, 1), "c"),
      Line("t4", LilTeccaSp, DayToken(2025, 1, 6), "d") }

\* lines with release dates that are no dates, among lines with dates
BadDateLines ==
    { Line("t1", LilTeccaSp, DayToken(2025, 1, 5), "a"),
      Line("t2", BothArtistsSp, DayToken(2025, 1, 7), "b"),
      Line("t6", LilTeccaSp, Unknown, "a"),
      Line("t7", BothArtistsSp, DayToken(2025, 13, 1), "e") }

\* the sets of lines a selection can be run on, by name
LinesOf(name) == IF name = "Lines" THEN Lines ELSE BadDateLines

\* the lines of the answers in a run
RunLines ==
    { Line("t1", LilTeccaSp, DayToken(2025, 1, 5), "a"),
      Line("t2", BothArtistsSp, DayToken(2025, 1, 7), "b"),
      Line("t6", LilTeccaSp, Unknown, "a"),
      JunkLine }

\* the instants at which a run reads the clock
RunNows == {Datetime(2025, 1, 8, t) : t \in {0, 1}}

----------------------------------------------------------------------------
(* Responses of the server, as send_mcp_request returns them *)

\* "null":      the line is no JSON, send_mcp_request returns None
\* "error":     a JSON object without "result"
\* "scalar":    a JSON number, on which  "result" in response  raises TypeError
\* "malformed": an object with "result" whose content[0].text is missing
\* "result":    an object with result.content[0].text = text
Response(kind, text) == [kind |-> kind, text |-> text]
FailureKinds == {"null", "error", "scalar", "malformed"}
Failures == {Response(k, <<>>) : k \in FailureKinds}

\* response and "result" in response
HasResult(resp) == resp.kind \in {"result", "malformed"}
\* evaluating that test raises
TestRaises(resp) == resp.kind = "scalar"
\* response["result"]["content"][0]["text"] raises
TextRaises(resp) == resp.kind = "malformed"

----------------------------------------------------------------------------
(* extract_track_info_with_dates and the loop of search_artist_tracks *)

Track(line) ==
    [title |-> line.title, artist |-> Strip(line.artist),
     release_date |-> Strip(line.release_date), id |-> line.id]

RECURSIVE extract_track_info_with_dates(_)
extract_track_info_with_dates(search_text) ==
    IF search_text = <<>> THEN <<>>
    ELSE LET line == Head(search_text)
             rest == extract_track_info_with_dates(Tail(search_text))
         IN IF line.match THEN <<Track(line)>> \o rest ELSE rest

\* artist.lower() in track['artist'].lower()
ArtistMatches(artist, track) == Contains(Lower(artist), Lower(track.artist))

\* any(t['id'] == track['id'] for t in found_tracks)
AlreadyFound(found, track) == \E i \in 1..Len(found) : found[i].id = track.id

\* the loop over tracks with found_tracks.insert(0, track) for append
RECURSIVE FilterIntoPrepend(_, _, _, _)
FilterIntoPrepend(found, tracks, artist, cutoff) ==
    IF tracks = <<>> THEN found
    ELSE LET track == Head(tracks)
             keep == /\ ArtistMatches(artist, track)
                     /\ is_recent_release(track.release_date, cutoff)
                     /\ ~AlreadyFound(found, track)
         IN FilterIntoPrepend(IF keep THEN <<track>> \o found ELSE found,
                              Tail(tracks), artist, cutoff)

\* the loop over tracks without the duplicate test
RECURSIVE FilterIntoNoDedup(_, _, _, _)
FilterIntoNoDedup(found, tracks, artist, cutoff) ==
    IF tracks = <<>> THEN found
    ELSE LET track == Head(tracks)
             keep == /\ ArtistMatches(artist, track)
                     /\ is_recent_release(track.release_date, cutoff)
         IN FilterIntoNoDedup(IF keep THEN Append(found, track) ELSE found,
                              Tail(tracks), artist, cutoff)

\* for track in tracks: ... found_tracks.append(track)
RECURSIVE FilterInto(_, _, _, _)
FilterInto(found, tracks, artist, cutoff) ==
    IF tracks = <<>> THEN found
    ELSE LET track == Head(tracks)
             keep == /\ ArtistMatches(artist, track)
                     /\ is_recent_release(track.release_date, cutoff)
                     /\ ~AlreadyFound(found, track)
         IN FilterInto(IF keep THEN Append(found, track) ELSE found,
                       Tail(tracks), artist, cutoff)

\* the loop raises: is_recent_release is called on a track and raises
FilterRaises(tracks, artist) ==
    \E i \in 1..Len(tracks) :
        IsRecentReleaseRaises(tracks[i].release_date) /\ ArtistMatches(artist, tracks[i])

\* the body of  for query in search_queries  after the response was read:
\* the new found_tracks, or that an exception was raised
ProcessSearchResponse(found, resp, artist, cutoff) ==
    IF TestRaises(resp) THEN [raised |-> TRUE, found |-> found]
    ELSE IF ~HasResult(resp) THEN [raised |-> FALSE, found |-> found]
    ELSE IF TextRaises(resp) THEN [raised |-> TRUE, found |-> found]
    ELSE LET tracks == extract_track_info_with_dates(resp.text)
         IN IF FilterRaises(tracks, artist) THEN [raised |-> TRUE, found |-> found]
            ELSE [raised |-> FALSE, found |-> FilterInto(found, tracks, artist, cutoff)]

\* s[:n]
Take(s, n) == SubSeq(s, 1, IF Len(s) < n THEN Len(s) ELSE n)

\* found_tracks[:3]
ReturnedTracks(found) == Take(found, MaxPerArtist)

\* the selection of search_artist_tracks applied to a sequence of candidates
SelectForArtist(candidates, artist, cutoff) ==
    ReturnedTracks(FilterInto(<<>>, candidates, artist, cutoff))

----------------------------------------------------------------------------
(* search_artist_tracks applied to one artist: the three queries of one     *)
(* artist, with the parsed candidates of the answers recorded in s_parsed   *)

\* the artists the lines name
SelArtists == {1, 2}

SelInitWith(name) ==
    /\ s_pc = "query"
    /\ s_lines = name
    /\ s_artist \in SelArtists
    /\ s_cutoff \in {get_cutoff_date(n) : n \in RunNows}
    /\ s_query = 0
    /\ s_fault = FALSE
    /\ s_parsed = <<>>
    /\ s_found = <<>>
    /\ s_out = <<>>
    /\ s_again = <<>>

SelAnswer(resp) ==
    LET r == ProcessSearchResponse(s_found, resp, FAVORITE_ARTISTS[s_artist], s_cutoff)
    IN /\ s_pc' = IF r.raised THEN "raised" ELSE "query"
       /\ s_fault' = (TestRaises(resp) \/ TextRaises(resp))
       /\ s_found' = r.found
       /\ s_parsed' = IF resp.kind = "result"
                      THEN s_parsed \o extract_track_info_with_dates(resp.text)
                      ELSE s_parsed

\* one query is answered and its tracks are filtered; the lines of one artist's
\* answers together number at most MaxTotalLines
SelQuery ==
    /\ s_pc = "query"
    /\ s_query < NQueries
    /\ \/ \E resp \in Failures : SelAnswer(resp)
       \/ \E k \in 0..(MaxTotalLines - Len(s_parsed)) :
             \E text \in [1..k -> LinesOf(s_lines)] : SelAnswer(Response("result", text))
    /\ s_query' = s_query + 1
    /\ UNCHANGED <<s_lines, s_artist, s_cutoff, s_out, s_again>>

\* return found_tracks[:3]; the selection is then applied to its own output
SelReturn ==
    /\ s_pc = "query"
    /\ s_query = NQueries
    /\ s_pc' = "returned"
    /\ s_out' = ReturnedTracks(s_found)
    /\ s_again' = SelectForArtist(ReturnedTracks(s_found), FAVORITE_ARTISTS[s_artist], s_cutoff)
    /\ UNCHANGED <<s_lines, s_artist, s_cutoff, s_query, s_fault, s_parsed, s_found>>

----------------------------------------------------------------------------
(* extract_playlist_id *)

\* "Playlist ID: "
PlaylistIdPrefix == <<"P","l","a","y","l","i","s","t"," ","I","D",":"," ">>

\* no match: extract_playlist_id returns None
NoPlaylistId == <<>>

\* re.search(r'Playlist ID: ([a-zA-Z0-9]+)', response_text): group 1 of the
\* leftmost match, the longest run of alphanumerics after the prefix
extract_playlist_id(response_text) ==
    LET n == Len(PlaylistIdPrefix)
        starts == {i \in 1..(Len(response_text) - n) :
                      /\ SubSeq(response_text, i, i + n - 1) = PlaylistIdPrefix
                      /\ IsAlnum(response_text[i + n])}
    IN IF starts = {} THEN NoPlaylistId
       ELSE LET i == CHOOSE x \in starts : \A y \in starts : x <= y
                ends == {e \in (i + n)..Len(response_text) :
                            \A k \in (i + n)..e : IsAlnum(response_text[k])}
                e == CHOOSE x \in ends : \A y \in ends : y <= x
            IN SubSeq(response_text, i + n, e)

\* answers to createPlaylist
CreateTexts ==
    { PlaylistIdPrefix \o <<"p","1">>,
      PlaylistIdPrefix \o <<"-"," ">> \o PlaylistIdPrefix \o <<"z","9">>,
      <<"C","r","e","a","t","e","d">>,
      PlaylistIdPrefix,
      Lower(PlaylistIdPrefix) \o <<"p","1">> }

\* "Successfully added"
SuccessfullyAdded ==
    <<"S","u","c","c","e","s","s","f","u","l","l","y"," ","a","d","d","e","d">>

\* answers to addTracksToPlaylist
AddTexts == { SuccessfullyAdded \o <<" ","2">>, <<"E","r","r","o","r">> }

InitResponses == Failures \cup {Response("result", <<>>)}
CreateResponses == Failures \cup {Response("result", t) : t \in CreateTexts}
AddResponses == Failures \cup {Response("result", t) : t \in AddTexts}
NoResponse == Response("none", <<>>)

----------------------------------------------------------------------------
(* create_weekly_playlist *)

RunInit ==
    /\ pc = "start"
    /\ process = "unbound"
    /\ server_found = "unchecked"
    /\ request_id = 0
    /\ outstanding = {}
    /\ sent = <<>>
    /\ init_response = NoResponse
    /\ create_response = NoResponse
    /\ add_response = NoResponse
    /\ playlist_id = NoPlaylistId
    /\ artist_idx = 0
    /\ query_idx = 0
    /\ cutoff_date = None
    /\ found_tracks = <<>>
    /\ all_tracks = <<>>
    /\ track_ids_to_add = <<>>
    /\ retval = "none"
    /\ raised = FALSE
    /\ result = "none"

Request(id, name, artist, query) ==
    [id |-> id, name |-> name, artist |-> artist, query |-> query]

\* an exception reaches  except Exception:  return False
Raise ==
    /\ raised' = TRUE
    /\ retval' = "False"
    /\ pc' = "finally"

\* return value  (inside the try block: the finally clause runs next)
Return(value) ==
    /\ retval' = value
    /\ pc' = "finally"
    /\ UNCHANGED raised

\* send_mcp_request up to process.stdin.flush(): the request is written, or
\* the pipe is broken and the write raises
WriteRequest(req, wait_pc) ==
    \/ /\ sent' = Append(sent, req)
       /\ outstanding' = outstanding \cup {req.id}
       /\ pc' = wait_pc
       /\ UNCHANGED <<retval, raised>>
    \/ /\ Raise
       /\ UNCHANGED <<sent, outstanding>>

\* send_mcp_request from process.stdout.readline() on, and  request_id += 1
ReadResponse ==
    /\ outstanding' = outstanding \ {request_id}
    /\ request_id' = request_id + 1

\* server_path.exists(), subprocess.Popen, request_id = 1
Start ==
    /\ pc = "start"
    /\ \/ /\ server_found' = "no"
          /\ result' = "False"
          /\ pc' = "done"
          /\ UNCHANGED <<process, request_id, retval, raised>>
       \/ /\ server_found' = "yes"
          /\ process' = "running"
          /\ request_id' = 1
          /\ pc' = "send_init"
          /\ UNCHANGED <<result, retval, raised>>
       \/ /\ server_found' = "yes"
          /\ Raise
          /\ UNCHANGED <<process, request_id, result>>
    /\ UNCHANGED <<outstanding, sent, init_response, create_response, add_response,
                   playlist_id, artist_idx, query_idx, cutoff_date, found_tracks,
                   all_tracks, track_ids_to_add>>

SendInit ==
    /\ pc = "send_init"
    /\ WriteRequest(Request(request_id, "initialize", 0, 0), "wait_init")
    /\ UNCHANGED <<process, server_found, request_id, init_response, create_response,
                   add_response, playlist_id, artist_idx, query_idx, cutoff_date,
                   found_tracks, all_tracks, track_ids_to_add, result>>

\* initialize is answered although the answer has no result
RecvInitUnchecked ==
    /\ pc = "wait_init"
    /\ ReadResponse
    /\ \E resp \in InitResponses :
          /\ init_response' = resp
          /\ IF TestRaises(resp) THEN Raise
             ELSE pc' = "send_create" /\ UNCHANGED <<retval, raised>>
    /\ UNCHANGED <<process, server_found, sent, create_response, add_response,
                   playlist_id, artist_idx, query_idx, cutoff_date, found_tracks,
                   all_tracks, track_ids_to_add, result>>

RecvInit ==
    /\ pc = "wait_init"
    /\ ReadResponse
    /\ \E resp \in InitResponses :
          /\ init_response' = resp
          /\ IF TestRaises(resp) THEN Raise
             ELSE IF ~HasResult(resp) THEN Return("False")
             ELSE pc' = "send_create" /\ UNCHANGED <<retval, raised>>
    /\ UNCHANGED <<process, server_found, sent, create_response, add_response,
                   playlist_id, artist_idx, query_idx, cutoff_date, found_tracks,
                   all_tracks, track_ids_to_add, result>>

SendCreate ==
    /\ pc = "send_create"
    /\ WriteRequest(Request(request_id, "createPlaylist", 0, 0), "wait_create")
    /\ UNCHANGED <<process, server_found, request_id, init_response, create_response,
                   add_response, playlist_id, artist_idx, query_idx, cutoff_date,
                   found_tracks, all_tracks, track_ids_to_add, result>>

RecvCreate ==
    /\ pc = "wait_create"
    /\ ReadResponse
    /\ \E resp \in CreateResponses :
          /\ create_response' = resp
          /\ IF TestRaises(resp) THEN Raise /\ UNCHANGED <<playlist_id, artist_idx>>
             ELSE IF ~HasResult(resp) THEN Return("False") /\ UNCHANGED <<playlist_id, artist_idx>>
             ELSE IF TextRaises(resp) THEN Raise /\ UNCHANGED <<playlist_id, artist_idx>>
             ELSE /\ playlist_id' = extract_playlist_id(resp.text)
                  /\ IF playlist_id' = NoPlaylistId
                     THEN Return("False") /\ UNCHANGED artist_idx
                     ELSE /\ pc' = "send_search"
                          /\ artist_idx' = 1
                          /\ UNCHANGED <<retval, raised>>
    /\ UNCHANGED <<process, server_found, sent, init_response, add_response, query_idx,
                   cutoff_date, found_tracks, all_tracks, track_ids_to_add, result>>

\* the three queries of an artist written at once, before any answer is read
SendSearchFanOut ==
    /\ pc = "send_search"
    /\ IF query_idx = 0
       THEN /\ \E now \in RunNows : cutoff_date' = get_cutoff_date(now)
            /\ found_tracks' = <<>>
       ELSE UNCHANGED <<cutoff_date, found_tracks>>
    /\ sent' = sent \o [q \in 1..(NQueries - query_idx) |->
                           Request(request_id + q - 1, "searchSpotify", artist_idx, query_idx + q)]
    /\ outstanding' = outstanding \cup {request_id + q - 1 : q \in 1..(NQueries - query_idx)}
    /\ pc' = "wait_search"
    /\ UNCHANGED <<process, server_found, request_id, init_response, create_response,
                   add_response, playlist_id, artist_idx, query_idx, all_tracks,
                   track_ids_to_add, result, retval, raised>>

\* search_artist_tracks: on entry cutoff_date and found_tracks are set; then the
\* next query of search_queries is written
SendSearch ==
    /\ pc = "send_search"
    /\ IF query_idx = 0
       THEN /\ \E now \in RunNows : cutoff_date' = get_cutoff_date(now)
            /\ found_tracks' = <<>>
       ELSE UNCHANGED <<cutoff_date, found_tracks>>
    /\ WriteRequest(Request(request_id, "searchSpotify", artist_idx, query_idx + 1), "wait_search")
    /\ UNCHANGED <<process, server_found, request_id, init_response, create_response,
                   add_response, playlist_id, artist_idx, query_idx, all_tracks,
                   track_ids_to_add, result>>

TrackIds(tracks) == [i \in 1..Len(tracks) |-> tracks[i].id]

\* where the run goes when the tracks of an artist were appended, with step 4
\* inside the loop over the artists
AfterArtistAddInLoop(idx, ids) ==
    IF ids # <<>> THEN "send_add"
    ELSE IF idx < NArtists THEN "send_search"
    ELSE "return"

\* where the run goes when the tracks of artist idx were appended: the next
\* artist, or after the last one step 4, which sends only  if track_ids_to_add
AfterArtist(idx, ids) ==
    IF idx < NArtists THEN "send_search"
    ELSE IF ids # <<>> THEN "send_add"
    ELSE "return"

SearchAnswer(resp) ==
          LET r == ProcessSearchResponse(found_tracks, resp,
                                         FAVORITE_ARTISTS[artist_idx], cutoff_date)
          IN IF r.raised
             THEN /\ Raise
                  /\ UNCHANGED <<found_tracks, query_idx, artist_idx, all_tracks, track_ids_to_add>>
             ELSE IF query_idx + 1 < NQueries
             THEN /\ found_tracks' = r.found
                  /\ query_idx' = query_idx + 1
                  /\ pc' = "send_search"
                  /\ UNCHANGED <<artist_idx, all_tracks, track_ids_to_add, retval, raised>>
             ELSE \* return found_tracks[:3], request_id
                  LET tracks == ReturnedTracks(r.found)
                      ids == track_ids_to_add \o TrackIds(tracks)
                      next == AfterArtist(artist_idx, ids)
                  IN /\ all_tracks' = all_tracks \o tracks
                     /\ track_ids_to_add' = ids
                     /\ found_tracks' = <<>>
                     /\ IF next = "send_search"
                        THEN /\ artist_idx' = artist_idx + 1
                             /\ query_idx' = 0
                             /\ pc' = "send_search"
                             /\ UNCHANGED <<retval, raised>>
                        ELSE /\ query_idx' = query_idx + 1
                             /\ UNCHANGED artist_idx
                             /\ IF next = "send_add"
                                THEN pc' = "send_add" /\ UNCHANGED <<retval, raised>>
                                ELSE Return("True")

\* a search is answered, with at most MaxLines lines, and its tracks are filtered
RecvSearch ==
    /\ pc = "wait_search"
    /\ ReadResponse
    /\ \/ \E resp \in Failures : SearchAnswer(resp)
       \/ \E k \in 0..MaxLines :
             \E text \in [1..k -> RunLines] : SearchAnswer(Response("result", text))
    /\ UNCHANGED <<process, server_found, sent, init_response, create_response,
                   add_response, playlist_id, cutoff_date, result>>

SendAdd ==
    /\ pc = "send_add"
    /\ WriteRequest(Request(request_id, "addTracksToPlaylist", 0, 0), "wait_add")
    /\ UNCHANGED <<process, server_found, request_id, init_response, create_response,
                   add_response, playlist_id, artist_idx, query_idx, cutoff_date,
                   found_tracks, all_tracks, track_ids_to_add, result>>

\* the answer to addTracksToPlaylist with a failure reported as return False
RecvAddStrict ==
    /\ pc = "wait_add"
    /\ ReadResponse
    /\ \E resp \in AddResponses :
          /\ add_response' = resp
          /\ IF TestRaises(resp) THEN Raise
             ELSE IF ~HasResult(resp) THEN Return("False")
             ELSE IF TextRaises(resp) THEN Raise
             ELSE IF Contains(SuccessfullyAdded, resp.text) THEN Return("True")
             ELSE Return("False")
    /\ UNCHANGED <<process, server_found, sent, init_response, create_response,
                   playlist_id, artist_idx, query_idx, cutoff_date, found_tracks,
                   all_tracks, track_ids_to_add, result>>

\* the answer to addTracksToPlaylist only decides what is printed
RecvAdd ==
    /\ pc = "wait_add"
    /\ ReadResponse
    /\ \E resp \in AddResponses :
          /\ add_response' = resp
          /\ IF TestRaises(resp) THEN Raise
             ELSE IF ~HasResult(resp) THEN Return("True")
             ELSE IF TextRaises(resp) THEN Raise
             ELSE IF Contains(SuccessfullyAdded, resp.text) THEN Return("True")
             ELSE Return("True")
    /\ UNCHANGED <<process, server_found, sent, init_response, create_response,
                   playlist_id, artist_idx, query_idx, cutoff_date, found_tracks,
                   all_tracks, track_ids_to_add, result>>

\* the clean-up placed in the except clause: it runs only after an exception
FinallyOnlyOnException ==
    /\ pc = "finally"
    /\ IF process = "unbound"
       THEN result' = "raised" /\ UNCHANGED process
       ELSE /\ result' = retval
            /\ IF raised
               THEN \E in_time \in BOOLEAN :
                       process' = IF in_time THEN "terminated" ELSE "killed"
               ELSE UNCHANGED process
    /\ pc' = "done"
    /\ UNCHANGED <<server_found, request_id, outstanding, sent, init_response,
                   create_response, add_response, playlist_id, artist_idx, query_idx,
                   cutoff_date, found_tracks, all_tracks, track_ids_to_add, retval, raised>>

\* finally: process.terminate(); process.wait(timeout=5), and process.kill() when
\* that raises.  When Popen itself raised, process is unbound: terminate() raises
\* UnboundLocalError, so does kill() in the handler, and that error leaves the
\* function in place of the return value
Finally ==
    /\ pc = "finally"
    /\ IF process = "unbound"
       THEN result' = "raised" /\ UNCHANGED process
       ELSE /\ result' = retval
            /\ \E in_time \in BOOLEAN :
                  process' = IF in_time THEN "terminated" ELSE "killed"
    /\ pc' = "done"
    /\ UNCHANGED <<server_found, request_id, outstanding, sent, init_response,
                   create_response, add_response, playlist_id, artist_idx, query_idx,
                   cutoff_date, found_tracks, all_tracks, track_ids_to_add, retval, raised>>

----------------------------------------------------------------------------
(* Specifications *)

DateIdle ==
    /\ d_pc = "idle"
    /\ d_token = <<>>
    /\ d_now = None
    /\ d_result = FALSE

SelIdle ==
    /\ s_pc = "idle"
    /\ s_lines = "none"
    /\ s_artist = 0
    /\ s_cutoff = None
    /\ s_query = 0
    /\ s_fault = FALSE
    /\ s_parsed = <<>>
    /\ s_found = <<>>
    /\ s_out = <<>>
    /\ s_again = <<>>

\* one run of create_weekly_playlist
Init == RunInit /\ DateIdle /\ SelIdle

Next ==
    \/ Start /\ UNCHANGED <<date_vars, sel_vars>>
    \/ SendInit /\ UNCHANGED <<date_vars, sel_vars>>
    \/ RecvInit /\ UNCHANGED <<date_vars, sel_vars>>
    \/ SendCreate /\ UNCHANGED <<date_vars, sel_vars>>
    \/ RecvCreate /\ UNCHANGED <<date_vars, sel_vars>>
    \/ SendSearch /\ UNCHANGED <<date_vars, sel_vars>>
    \/ RecvSearch /\ UNCHANGED <<date_vars, sel_vars>>
    \/ SendAdd /\ UNCHANGED <<date_vars, sel_vars>>
    \/ RecvAdd /\ UNCHANGED <<date_vars, sel_vars>>
    \/ Finally /\ UNCHANGED <<date_vars, sel_vars>>

Spec == Init /\ [][Next]_vars

\* is_recent_release on every token and every instant
InitDate == RunInit /\ DateInit /\ SelIdle
NextDate == DateCheck /\ UNCHANGED <<run_vars, sel_vars>>
SpecDate == InitDate /\ [][NextDate]_vars

\* search_artist_tracks on every sequence of answers
InitSelect == RunInit /\ DateIdle /\ SelInitWith("Lines")
NextSelect ==
    \/ SelQuery /\ UNCHANGED <<run_vars, date_vars>>
    \/ SelReturn /\ UNCHANGED <<run_vars, date_vars>>
SpecSelect == InitSelect /\ [][NextSelect]_vars

\* search_artist_tracks on answers with release dates that are no dates
InitBadDate == RunInit /\ DateIdle /\ SelInitWith("BadDateLines")
SpecBadDate == InitBadDate /\ [][NextSelect]_vars

----------------------------------------------------------------------------
(* What the claims are stated with *)

\* the calendar dates a token can stand for, with the tokens that stand for
\* them: year-month-day (the day padded with 0 or a space), year-month for
\* the 1st of the month, the year for January 1
Renderings(y, m, d) ==
    {DayToken(y, m, d)}
    \cup (IF d < 10 THEN {SpaceDayToken(y, m, d)} ELSE {})
    \cup (IF d = 1 THEN {MonthToken(y, m)} ELSE {})
    \cup (IF d = 1 /\ m = 1 THEN {YearToken(y)} ELSE {})

CalendarDays == {x \in Years \X (1..12) \X (1..31) : x[3] <= DaysInMonth(x[1], x[2])}

TokenDates == UNION {{<<tok, x>> : tok \in Renderings(x[1], x[2], x[3])} : x \in CalendarDays}

\* the dates token tok normalises to: one, or none when it stands for no date
DatesOf(tok) == {p[2] : p \in {q \in TokenDates : q[1] = tok}}

\* an instant as a number of ticks
Instant(y, m, d, t) == ToOrdinal(y, m, d) * TicksPerDay + t

\* the instant exactly seven days before now
CutoffInstant(now) == Instant(now.year, now.month, now.day, now.tick) - 7 * TicksPerDay

AddRequests == {i \in DOMAIN sent : sent[i].name = "addTracksToPlaylist"}
SearchRequests == {i \in DOMAIN sent : sent[i].name = "searchSpotify"}
AllSearchesAnswered == artist_idx = NArtists /\ query_idx = NQueries

\* the artist text contains the artist name, case-insensitively
NamesArtist(text, name) ==
    \E i \in 0..(Len(text) - Len(name)) :
        \A k \in 1..Len(name) : LowerChar(text[i + k]) = LowerChar(name[k])

\* the elements of s at the positions in I, in order
RECURSIVE AtPositions(_, _, _)
AtPositions(s, I, k) ==
    IF k > Len(s) THEN <<>>
    ELSE (IF k \in I THEN <<s[k]>> ELSE <<>>) \o AtPositions(s, I, k + 1)

\* the candidates of s_parsed by the artist and recent, without those whose id
\* occurred earlier among them
QualifiedOnce ==
    LET ok == {i \in DOMAIN s_parsed :
                  /\ NamesArtist(s_parsed[i].artist, FAVORITE_ARTISTS[s_artist])
                  /\ is_recent_release(s_parsed[i].release_date, s_cutoff)}
        first == {i \in ok : \A j \in ok : j < i => s_parsed[j].id # s_parsed[i].id}
    IN AtPositions(s_parsed, first, 1)

\* the candidates of s_parsed whose release date stands for a date
WithDates == SelectSeq(s_parsed, LAMBDA t : DatesOf(t.release_date) # {})

\* no token that stands for no date is recent at any instant, and none raises
BadTokensNeverRecent ==
    \A tok \in DateTokens :
        DatesOf(tok) = {} =>
            /\ ~IsRecentReleaseRaises(tok)
            /\ \A now \in DateNows : ~is_recent_release(tok, get_cutoff_date(now))

----------------------------------------------------------------------------
(* The claims *)

\* C1: the track ids accumulated over all artists of one run, the list handed
\* to addTracksToPlaylist, are pairwise distinct.
C1_TrackIdsDistinct ==
    \A i, j \in DOMAIN track_ids_to_add :
        i # j => track_ids_to_add[i] # track_ids_to_add[j]

\* C2: addTracksToPlaylist is sent at most once, as the last request, and only
\* when the last query of the last artist was answered and filtered; a run that
\* stopped before that has sent no addTracksToPlaylist.
C2_AddOnceAfterAllSearches ==
    /\ Cardinality(AddRequests) <= 1
    /\ \A i \in AddRequests :
          /\ i = Len(sent)
          /\ Cardinality(SearchRequests) = NArtists * NQueries
          /\ AllSearchesAnswered
          /\ found_tracks = <<>>
          /\ track_ids_to_add = TrackIds(all_tracks)
    /\ (pc \in {"finally", "done"} /\ ~AllSearchesAnswered) => AddRequests = {}

C2_Witness ==
    /\ pc = "done"
    /\ AddRequests # {}
    /\ Len(track_ids_to_add) >= 2

\* C3: what search_artist_tracks returns is the first three (or all, if fewer)
\* of the parsed candidates of its queries, in query order, that are by the
\* artist and recent, each id kept at its first occurrence among them; the
\* order is the order of discovery.
C3_SelectionIsFirstThree ==
    s_pc = "returned" => s_out = Take(QualifiedOnce, 3)

C3_Witness ==
    /\ s_pc = "returned"
    /\ Len(QualifiedOnce) > 3
    /\ Len(s_out) = 3

\* C4: is_recent_release with the cutoff seven days before now is true exactly
\* when the token stands for a date and that date, at midnight, is at or after
\* the cutoff instant.
C4_RecentIffOnOrAfterCutoff ==
    d_pc = "done" =>
        (d_result <=> \E x \in DatesOf(d_token) :
                          Instant(x[1], x[2], x[3], 0) >= CutoffInstant(d_now))

\* the release date is the cutoff instant itself
C4_Witness ==
    /\ d_pc = "done"
    /\ d_result
    /\ d_now = Datetime(2025, 1, 8, 0)
    /\ d_token = MonthToken(2025, 1)

\* C5: a candidate whose date token stands for no date is never selected; it
\* raises no error; the other candidates and the later queries are processed as
\* if it were not there.
C5_BadDatesNeverSelected ==
    /\ BadTokensNeverRecent
    /\ s_pc = "raised" => s_fault
    /\ \A i \in DOMAIN s_found : DatesOf(s_found[i].release_date) # {}
    /\ s_pc = "returned" =>
          s_out = SelectForArtist(WithDates, FAVORITE_ARTISTS[s_artist], s_cutoff)

C5_Witness ==
    /\ s_pc = "returned"
    /\ Len(s_parsed) = 3
    /\ DatesOf(s_parsed[1].release_date) = {}
    /\ DatesOf(s_parsed[2].release_date) = {}
    /\ s_parsed[1].release_date # s_parsed[2].release_date
    /\ s_out = <<s_parsed[3]>>

\* C6: the selection applied to its own output, with the same artist and the
\* same cutoff, returns that output.
C6_SelectionIdempotent ==
    s_pc = "returned" => s_again = s_out

C6_Witness ==
    /\ s_pc = "returned"
    /\ Len(s_out) >= 2
    /\ Len(s_parsed) > Len(s_out)
    /\ s_again = s_out

\* C7: at most one request is outstanding, and it is the one written last;
\* request ids count the requests; the searches are written artist after
\* artist in list order, query after query.
C7_OneOutstandingRequest ==
    /\ Cardinality(outstanding) <= 1
    /\ \A id \in outstanding : sent # <<>> /\ sent[Len(sent)].id = id
    /\ \A i \in DOMAIN sent : sent[i].id = i
    /\ \A i, j \in SearchRequests :
          i < j => \/ sent[i].artist < sent[j].artist
                   \/ sent[i].artist = sent[j].artist /\ sent[i].query < sent[j].query

C7_Witness ==
    /\ Cardinality(outstanding) = 1
    /\ sent[Len(sent)].name = "searchSpotify"
    /\ sent[Len(sent)].artist = NArtists
    /\ sent[Len(sent)].query = NQueries

InitFailed == init_response.kind \in {"null", "error"}
CreateFailed == create_response.kind \in {"null", "error"}
NoIdExtracted == create_response.kind = "result" /\ playlist_id = NoPlaylistId
ReturnsFailure == pc \in {"finally", "done"} /\ retval = "False"

\* C8: the requests are initialize, createPlaylist, the searches of each
\* artist, addTracksToPlaylist, in this order; createPlaylist only after
\* initialize was answered with a result; a search only after createPlaylist
\* was answered with a result that holds a playlist id; when one of the three
\* checks fails the run returns failure with no further request.
C8_FixedRequestOrder ==
    /\ \A i \in DOMAIN sent :
          \/ i = 1 /\ sent[i].name = "initialize"
          \/ i = 2 /\ sent[i].name = "createPlaylist"
          \/ /\ sent[i].name = "searchSpotify"
             /\ i = 2 + (sent[i].artist - 1) * NQueries + sent[i].query
             /\ sent[i].artist \in 1..NArtists /\ sent[i].query \in 1..NQueries
          \/ i = 2 + NArtists * NQueries + 1 /\ sent[i].name = "addTracksToPlaylist"
    /\ Len(sent) >= 2 => init_response.kind \in {"result", "malformed"}
    /\ Len(sent) >= 3 => create_response.kind = "result" /\ playlist_id # NoPlaylistId
    /\ InitFailed => Len(sent) = 1 /\ ReturnsFailure
    /\ CreateFailed => Len(sent) = 2 /\ ReturnsFailure
    /\ NoIdExtracted => Len(sent) = 2 /\ ReturnsFailure

C8_Witness ==
    /\ pc = "done"
    /\ NoIdExtracted
    /\ result = "False"

\* C9: the run returns failure only when the server script is missing,
\* initialize or createPlaylist fails, no playlist id is extracted or an
\* exception is raised; with a playlist id and no exception it returns
\* success, whatever the answer to addTracksToPlaylist, and with no track
\* selected it sends no addTracksToPlaylist.
C9_FailureOnlyWhen ==
    /\ result = "False" =>
          \/ server_found = "no"
          \/ InitFailed
          \/ CreateFailed
          \/ NoIdExtracted
          \/ raised
    /\ (pc = "done" /\ playlist_id # NoPlaylistId /\ ~raised) => result = "True"
    /\ (pc = "done" /\ result = "True") => (AddRequests = {} <=> track_ids_to_add = <<>>)

C9_Witness ==
    /\ pc = "done"
    /\ result = "True"
    /\ add_response.kind = "error"

\* C10: when the subprocess was started it is terminated or killed by the time
\* create_weekly_playlist is left, on every path, and from then on no request
\* is written.
C10_SubprocessStopped ==
    /\ [](pc = "done" /\ process # "unbound" => process \in {"terminated", "killed"})
    /\ [](process \in {"terminated", "killed"} => pc = "done" /\ result = retval)
    /\ [][(process \in {"terminated", "killed"}) => (sent' = sent)]_vars

C10_Witness ==
    /\ pc = "done"
    /\ process = "killed"
    /\ raised
    /\ Len(sent) = 2 + NArtists * NQueries + 1

====
